---- MODULE Spec2Model ----
(***************************************************************************)
(* Download orchestration of the YD downloader: the engine                 *)
(* (DownloaderEngine.download), the web job channel (websocket_endpoint)   *)
(* and the terminal UI (on_button_pressed / download_task / finish_ui),    *)
(* for both scripts of the repository, yd4.py and Yd.py.                   *)
(*                                                                         *)
(* Text (paths, messages, percent strings) is a tuple of tokens, so that   *)
(* substring tests, extension swaps and parsing are computed, not assumed. *)
(***************************************************************************)
EXTENDS Integers, Sequences, FiniteSets, TLC

\* ------------------------------------------------------------------ bounds
\* Progress events the extractor emits in one run, at most.
MaxEvents == 2
\* Jobs the terminal UI accepts in one run, at most.
MaxJobs == 2
\* Files the extractor leaves in the output directory per job, at most.
MaxWritten == 1
\* Downloading events handed to a hook on its own, at most.
MaxReports == 3

\* ------------------------------------------------------------- text helpers
None == <<"None">>

\* s with every element equal to tok removed: str.replace(tok, '')
RECURSIVE Remove(_, _)
Remove(s, tok) ==
    IF s = <<>> THEN <<>>
    ELSE IF Head(s) = tok THEN Remove(Tail(s), tok)
         ELSE <<Head(s)>> \o Remove(Tail(s), tok)

\* str.strip(): leading and trailing blanks removed
RECURSIVE LStrip(_)
LStrip(s) == IF s # <<>> /\ Head(s) = " " THEN LStrip(Tail(s)) ELSE s

RECURSIVE RStrip(_)
RStrip(s) ==
    IF s # <<>> /\ s[Len(s)] = " " THEN RStrip(SubSeq(s, 1, Len(s) - 1)) ELSE s

Strip(s) == RStrip(LStrip(s))

\* sub in s: sub is a contiguous part of s
Contains(sub, s) ==
    \E i \in 0..(Len(s) - Len(sub)) : SubSeq(s, i + 1, i + Len(sub)) = sub

EndsWith(s, suf) ==
    Len(s) >= Len(suf) /\ SubSeq(s, Len(s) - Len(suf) + 1, Len(s)) = suf

\* os.path.splitext(p)[0]: p up to its last dot (a dot that starts the name
\* is no extension)
SplitExtRoot(p) ==
    LET dots == {i \in 2..Len(p) : p[i] = "." /\ p[i - 1] # "/"}
    IN  IF dots = {} THEN p
        ELSE SubSeq(p, 1, (CHOOSE i \in dots : \A j \in dots : j <= i) - 1)

\* os.path.join(dir, name)
Join(dir, name) == dir \o <<"/">> \o name

\* ------------------------------------------------------------ the platform
\* What get_default_download_path looks at on the host: sys.platform, and
\* whether the Termux marker /data/data/com.termux and /storage/emulated/0
\* exist
Platforms == {"win32", "darwin", "linux", "freebsd"}
Hosts == [platform : Platforms, marker : BOOLEAN, storage : BOOLEAN]
\* The host the downloads run on unless said otherwise: a Linux desktop
GenericLinux == [platform |-> "linux", marker |-> FALSE, storage |-> FALSE]

\* Path.home() / "ytd"
DefaultDir == <<"/", "home", "/", "ytd">>
\* Path("/storage/emulated/0") / "Download"
SharedDownload == <<"/", "storage", "/", "emulated", "/", "0", "/", "Download">>
\* Path.home() / "storage" / "downloads"
TermuxDownloads == <<"/", "home", "/", "storage", "/", "downloads">>
\* Yd.py: DownloaderEngine.download_path, <cwd>/downloads
YdDownloadPath == <<"/", "cwd", "/", "downloads">>
\* A directory the terminal user types, relative to the working directory
CustomDir == <<"out">>
\* What the #path input of the terminal UI holds during a run: left empty, or
\* the directory typed
PATHS == {<<>>, CustomDir}

\* os.path.abspath(p)
AbsPath(p) == IF p # <<>> /\ Head(p) = "/" THEN p ELSE <<"/", "cwd", "/">> \o p

\* ----------------------------------------------------- the adapter's world
\* What the extractor knows of the media behind a URL: its title and the
\* file name its output template (title.ext) yields.
Titled   == [title |-> <<"a">>, base |-> <<"a", ".", "webm">>]
\* The media behind a second URL, of another title
Titled2  == [title |-> <<"b">>, base |-> <<"b", ".", "webm">>]
\* extract_info returned nothing
NoInfo   == [title |-> <<>>, base |-> <<>>]

\* ydl.prepare_filename(info): outtmpl filled in
prepare_filename(dir, media) == Join(dir, media.base)

\* Files the extractor may leave in the output directory for a media: the
\* download itself, its transcoded audio, and a format-tagged intermediate.
AudioName(media)  == SplitExtRoot(media.base) \o <<".", "mp3">>
FormatName(media) == SplitExtRoot(media.base) \o <<".", "f1", ".", "webm">>
LeftNames(media)  == {media.base, AudioName(media), FormatName(media)}

\* Exception texts the extractor raises with
ExcTexts == { <<"ERROR:", "unavailable">>, <<>> }

\* _percent_str payloads of a downloading event. Missing: the key is absent;
\* NotAString: the value is no string (a number, None).
Missing    == <<"<missing>">>
NotAString == <<"<not-a-string>">>
PercentStrs == { <<" ", "10", "%">>, <<"N/A">>, Missing, NotAString }

\* Percent strings outside [0, 100]
OutOfRange == { <<"150", "%">>, <<"-5", "%">> }

\* float(text): a number, or ValueError. Percents are kept as integers.
Numerals == { <<"0">>, <<"10">>, <<"100">>, <<"150">>, <<"-5">> }
FloatOf(s) ==
    CASE s = <<"0">>   -> 0
      [] s = <<"10">>  -> 10
      [] s = <<"100">> -> 100
      [] s = <<"150">> -> 150
      [] s = <<"-5">>  -> 0 - 5

\* --------------------------------------------------------------- requests
FMTS == {"video", "audio"}
EmptyUrl == <<>>
BlankUrl == <<" ">>
Url1 == <<"u1">>
URLS == {EmptyUrl, BlankUrl, Url1}
\* A second URL, for callers of the engine other than the two front ends
Url2 == <<"u2">>

\* The media a URL leads to (a blank URL leads to none: the extractor raises)
MediaOf(url) == IF url = Url2 THEN Titled2 ELSE Titled

\* What a web client sends: text that is no JSON, or an object whose url key
\* may be absent.
NoKey   == <<"<no-key>">>
BadJson == [json |-> FALSE, url |-> NoKey, format |-> "video"]
Requests ==
    {BadJson} \cup [json : {TRUE}, url : URLS \cup {NoKey}, format : FMTS]

\* ------------------------------------------------------ events and frames
\* A progress dictionary d the extractor hands to a progress hook
Downloading(p) == [status |-> "downloading", percent_str |-> p, filename |-> None]
Finished(f)    == [status |-> "finished", percent_str |-> Missing, filename |-> f]
EventsOf(dir, media) ==
    {Downloading(p) : p \in PercentStrs}
        \cup {Finished(Join(dir, n)) : n \in {media.base, FormatName(media)}}

\* A message on the web job channel (send_json), or the close of the channel
Frame(t, p, x) == [type |-> t, percent |-> p, ok |-> FALSE, text |-> x]
NoFrame    == Frame("none", 0, <<>>)
CloseFrame == Frame("close", 0, <<>>)
Terminal(f) == f.type \in {"done", "error"}

\* A call the terminal worker hands to the UI thread (call_from_thread)
Call(f, p, k, x) == [type |-> f, percent |-> p, ok |-> k, text |-> x]
NoCall == Call("none", 0, FALSE, <<>>)

\* The (success, text) pair download returns
Result(k, x) == [ok |-> k, text |-> x]
NoResult == Result(FALSE, <<"<none>">>)

\* ------------------------------------------------------- progress parsing
\* d.get('_percent_str', '0%').replace('%', '').strip() followed by float():
\* [exc, value], exc the exception class raised, "" when none
DefaultPercent == <<"0", "%">>
ParsePercent(p) ==
    IF p = NotAString THEN [exc |-> "AttributeError", value |-> 0]
    ELSE LET raw == IF p = Missing THEN DefaultPercent ELSE p
             txt == Strip(Remove(raw, "%"))
         IN  IF txt \in Numerals THEN [exc |-> "", value |-> FloatOf(txt)]
             ELSE [exc |-> "ValueError", value |-> 0]

\* Yd.py drops the strip(): d.get('_percent_str', '0%').replace('%', '');
\* float() itself skips surrounding blanks
ParsePercentYd(p) ==
    IF p = NotAString THEN [exc |-> "AttributeError", value |-> 0]
    ELSE LET raw == IF p = Missing THEN DefaultPercent ELSE p
             txt == Remove(raw, "%")
         IN  IF Strip(txt) \in Numerals THEN [exc |-> "", value |-> FloatOf(Strip(txt))]
             ELSE [exc |-> "ValueError", value |-> 0]

\* What a hook does with one event: the exception it lets out ("" when
\* none) and the frame or call it hands to the front end.
HookOut(e, c) == [exc |-> e, out |-> c]

\* yd4.py web_hook: catches ValueError and TypeError only
web_hook(d) ==
    IF d.status = "downloading" THEN
        LET r == ParsePercent(d.percent_str)
        IN  IF r.exc = "" THEN
                HookOut("", Frame("progress", r.value, <<"Downloading...">>))
            ELSE IF r.exc \in {"ValueError", "TypeError"} THEN HookOut("", NoFrame)
            ELSE HookOut(r.exc, NoFrame)
    ELSE IF d.status = "finished" THEN
        HookOut("", Frame("progress", 100, <<"Processing...">>))
    ELSE HookOut("", NoFrame)

\* Yd.py web_hook: a bare except around the downloading branch; a finished
\* event sends a frame of type log
web_hook_Yd(d) ==
    IF d.status = "downloading" THEN
        LET r == ParsePercentYd(d.percent_str)
        IN  IF r.exc = "" THEN
                HookOut("", Frame("progress", r.value, <<"Downloading...">>))
            ELSE HookOut("", NoFrame)
    ELSE IF d.status = "finished" THEN
        HookOut("", Frame("log", 0, <<"Processing file...">>))
    ELSE HookOut("", NoFrame)

\* yd4.py progress_hook of download_task (runs on the worker thread)
progress_hook(d) ==
    IF d.status = "downloading" THEN
        LET r == ParsePercent(d.percent_str)
        IN  IF r.exc = "" THEN
                HookOut("", Call("update_progress", r.value, FALSE, <<>>))
            ELSE IF r.exc \in {"ValueError", "TypeError"} THEN HookOut("", NoCall)
            ELSE HookOut(r.exc, NoCall)
    ELSE IF d.status = "finished" THEN
        HookOut("", Call("write_line", 0, FALSE, <<"Download complete. Processing...">>))
    ELSE HookOut("", NoCall)

\* Yd.py progress_hook of download_task. download_task is called where
\* run_worker's argument is evaluated, on the UI thread, and there
\* call_from_thread raises RuntimeError: swallowed by the bare except of the
\* downloading branch, let out of the finished branch.
CallFromThreadError == <<"The", "call_from_thread", "method", "must", "run", "in", "a", "different", "thread">>
progress_hook_Yd(d) ==
    IF d.status = "downloading" THEN HookOut("", NoCall)
    ELSE IF d.status = "finished" THEN HookOut("call_from_thread", NoCall)
    ELSE HookOut("", NoCall)

\* str(e) of an exception a hook lets out
HookExcText(exc) ==
    IF exc = "call_from_thread" THEN CallFromThreadError ELSE <<exc>>

\* internal_hook without its try/except: the hook's exception goes on into
\* the extractor
internal_hook_NoTry(h) == h

\* yd4.py internal_hook: the front end's hook inside try/except Exception
internal_hook(h) == HookOut("", h.out)

\* An internal_hook that keeps the first filename it captured
CaptureFile_First(dfile, d) ==
    IF d.status = "finished" /\ dfile = None THEN d.filename ELSE dfile

\* yd4.py internal_hook: downloaded_file after event d
CaptureFile(dfile, d) == IF d.status = "finished" THEN d.filename ELSE dfile

\* ------------------------------------------------------------- the engine
GenericFailure == <<"Download failed. Please check the URL and try again.">>

\* yd4.py download, except branch: the message of an exception
Sanitize(msg) ==
    IF Contains(<<"call_from_thread">>, msg) \/ Contains(<<"ERROR:">>, msg)
    THEN GenericFailure ELSE msg

\* os.listdir(dir): the names of dir's immediate entries
ListDir(dir, dsk) ==
    {SubSeq(p, Len(dir) + 2, Len(p)) :
        p \in {q \in dsk : Len(q) > Len(dir) + 1 /\ SubSeq(q, 1, Len(dir) + 1) = dir \o <<"/">>}}

\* yd4.py download: the expected final file
FinalFile(fmt, dir, info) ==
    IF fmt = "audio" THEN SplitExtRoot(prepare_filename(dir, info)) \o <<".", "mp3">>
    ELSE prepare_filename(dir, info)

\* ResolveFile scanning the directory before it looks at the file the
\* finished event reported
ResolveFile_ScanFirst(fmt, dir, info, dfile, dsk) ==
    IF info = NoInfo THEN {Result(FALSE, <<"Failed to extract video information">>)}
    ELSE
        LET final == FinalFile(fmt, dir, info)
            found == {n \in ListDir(dir, dsk) : Contains(info.title, n)}
        IN  IF final \in dsk THEN {Result(TRUE, final)}
            ELSE IF info.title # <<>> /\ found # {} THEN
                {Result(TRUE, Join(dir, n)) : n \in found}
            ELSE IF dfile # None /\ dfile \in dsk THEN {Result(TRUE, dfile)}
            ELSE {Result(FALSE, <<"Download completed but file not found in">> \o dir)}

\* ResolveFile trusting the expected final path without os.path.exists
ResolveFile_NoExists(fmt, dir, info, dfile, dsk) ==
    IF info = NoInfo THEN {Result(FALSE, <<"Failed to extract video information">>)}
    ELSE {Result(TRUE, FinalFile(fmt, dir, info))}

\* yd4.py download, after extract_info returned info: the results it can
\* return (os.listdir orders the entries as the file system pleases).
ResolveFile(fmt, dir, info, dfile, dsk) ==
    IF info = NoInfo THEN {Result(FALSE, <<"Failed to extract video information">>)}
    ELSE
        LET final == FinalFile(fmt, dir, info)
            found == {n \in ListDir(dir, dsk) : Contains(info.title, n)}
        IN  IF final \in dsk THEN {Result(TRUE, final)}
            ELSE IF dfile # None /\ dfile \in dsk THEN {Result(TRUE, dfile)}
            ELSE IF info.title # <<>> /\ found # {} THEN
                {Result(TRUE, Join(dir, n)) : n \in found}
            ELSE {Result(FALSE, <<"Download completed but file not found in">> \o dir)}

\* Yd.py download: (True, "Finished") whatever was written
ResolveFileYd == {Result(TRUE, <<"Finished">>)}

\* yd4.py / Yd.py download, except branch: the failure an exception becomes
EngineExcept(scr, msg) ==
    IF scr = "yd4" THEN Result(FALSE, Sanitize(msg)) ELSE Result(FALSE, msg)

\* ------------------------------------------------------------------ state
\* Job slots: a web connection and the executor thread running its download
\* (connections are numbered in the order their requests are handled), or a
\* worker thread of the terminal UI.
Slots == {1, 2}

VARIABLES
    host,       \* the platform the program runs on
    script,     \* "yd4" or "Yd": the script that runs
    mode,       \* "web" (--web) or "tui"
    disk,       \* the paths that exist
    invoked,    \* the URLs the extractor has been invoked with
    emitted,    \* the number of progress events the extractor has emitted
    job,        \* per slot: the download running in it
    ws,         \* web, per slot: where websocket_endpoint stands
    delivered,  \* per slot: frames sent on the channel / calls run on the UI thread
    ready,      \* web: the hand-offs to the event loop, in the order it runs them
    ui,         \* terminal UI: the app's fields and controls
    call        \* terminal UI, per slot: the call_from_thread a worker waits on

vars == <<host, script, mode, disk, invoked, emitted, job, ws, delivered, ready, ui, call>>

\* A default path that takes the shared folder for granted on Termux
get_default_download_path_NoFallback ==
    IF host.platform = "linux" /\ host.marker THEN SharedDownload ELSE DefaultDir

\* get_default_download_path(): the host's default directory
get_default_download_path ==
    IF host.platform = "win32" THEN DefaultDir
    ELSE IF host.platform = "darwin" THEN DefaultDir
    ELSE IF host.platform = "linux" THEN
        IF host.marker THEN
            IF host.storage THEN SharedDownload ELSE TermuxDownloads
        ELSE DefaultDir
    ELSE DefaultDir

IdleJob ==
    [pc |-> "idle", url |-> <<>>, fmt |-> "video", dir |-> <<>>,
     dfile |-> None, malformed |-> 0, adapter |-> "none", result |-> NoResult,
     finished |-> 0, posted |-> <<>>, lastfin |-> None, hook |-> "front"]

\* YDDL_TUI.__init__ and compose: nothing downloaded, start enabled, open disabled
InitUi ==
    [alive |-> TRUE, is_downloading |-> FALSE, start_disabled |-> FALSE,
     open_disabled |-> TRUE, last_downloaded_file |-> None, bar |-> 0,
     accepted |-> 0, press |-> "none", path |-> <<>>]

Init ==
    /\ host = GenericLinux
    /\ script \in {"yd4", "Yd"}
    /\ mode \in {"web", "tui"}
    /\ disk = {}
    /\ invoked = {}
    /\ emitted = 0
    /\ job = [j \in Slots |-> IdleJob]
    /\ ws = [j \in Slots |-> "open"]
    /\ delivered = [j \in Slots |-> <<>>]
    /\ ready = <<>>
    /\ ui \in IF mode = "tui" /\ script = "yd4"
                THEN {[InitUi EXCEPT !.path = p] : p \in PATHS} ELSE {InitUi}
    /\ call = [j \in Slots |-> NoCall]

Item(k, j, f) == [k |-> k, slot |-> j, frame |-> f]

\* A download is running in slot j: submitted and not yet returned
Running(j) == job[j].pc \in {"queued", "extracting", "blocked"} /\ job[j].result = NoResult
RunningJobs == {j \in Slots : Running(j)}

\* The front end's hook for the script and mode that run
FrontHook(d) ==
    CASE mode = "web" /\ script = "yd4" -> web_hook(d)
      [] mode = "web" /\ script = "Yd"  -> web_hook_Yd(d)
      [] mode = "tui" /\ script = "yd4" -> progress_hook(d)
      [] mode = "tui" /\ script = "Yd"  -> progress_hook_Yd(d)

\* The hook_callback argument of a download call: the front end's hook
\* ("front"), None ("none": internal_hook calls nothing), or a callable that
\* raises on every event ("raises")
Callbacks == {"front", "none", "raises"}
hook_callback(cb, d) ==
    CASE cb = "front"  -> FrontHook(d)
      [] cb = "none"   -> HookOut("", NoFrame)
      [] cb = "raises" -> HookOut("RuntimeError", NoFrame)

\* The hook the engine registers with the extractor for a call made with
\* callback cb: yd4.py wraps it in internal_hook, Yd.py registers it as it is
EngineHookOf(cb, d) ==
    IF script = "yd4" THEN internal_hook(hook_callback(cb, d)) ELSE hook_callback(cb, d)

\* The hook the engine registers with the extractor: yd4.py wraps the front
\* end's hook in internal_hook, Yd.py registers it as it is
EngineHook(d) == EngineHookOf("front", d)

\* ------------------------------------------------------- the event loop
\* A loop that runs the latest hand-off first
Enqueue_Lifo(q, item) == <<item>> \o q

\* A worker thread hands work to the loop with call_soon_threadsafe: a frame
\* to send (run_coroutine_threadsafe: the callback makes the task, whose
\* first step, registered with call_soon, sends) or the download's result
\* (the executor future's done callback sets the awaited future, whose
\* wakeup of the endpoint task is registered with call_soon). Either takes
\* two turns of the loop, and the loop runs callbacks in the order they were
\* registered, so `ready` holds the hand-offs in the order the threads made
\* them and the loop takes them from its head.
Enqueue(q, item) == Append(q, item)

\* websocket.send_json(f) on slot j's channel: written unless the channel
\* is closed (then send raises)
SendJson(log, state, f) == IF state = "closed" THEN log ELSE Append(log, f)

\* yd4.py websocket_endpoint: the terminal message for download's result
ResultFrame(r) ==
    IF r.ok THEN Frame("done", 0, r.text) ELSE Frame("error", 0, r.text)

\* Yd.py websocket_endpoint: download's result is dropped, done is sent
ResultFrameYd(r) == Frame("done", 0, None)

\* yd4.py websocket_endpoint: url = req.get('url', '').strip()
RequestUrl(req) == Strip(IF req.url = NoKey THEN <<>> ELSE req.url)

\* A job submitted to a thread: download(url, fmt, path, hook) not yet begun
Submitted(url, fmt, path) ==
    [IdleJob EXCEPT !.pc = "queued", !.url = url, !.fmt = fmt, !.dir = path]

\* ---------------------------------------------------- web job channel
\* websocket_endpoint_receive without the return after "No URL provided":
\* the error is sent and the download is started all the same
websocket_endpoint_receive_NoReturn(j, req) ==
    /\ mode = "web" /\ script = "yd4"
    /\ ws[j] = "open"
    /\ \A k \in Slots : k < j => ws[k] # "open"
    /\ IF ~req.json THEN
            /\ delivered' = [delivered EXCEPT
                    ![j] = SendJson(@, ws[j], Frame("error", 0, <<"Invalid request format">>))]
            /\ ws' = [ws EXCEPT ![j] = "closing"]
            /\ UNCHANGED job
       ELSE
            /\ delivered' = IF RequestUrl(req) # <<>> THEN delivered
                    ELSE [delivered EXCEPT
                        ![j] = SendJson(@, ws[j], Frame("error", 0, <<"No URL provided">>))]
            /\ job' = [job EXCEPT
                    ![j] = Submitted(RequestUrl(req), req.format, get_default_download_path)]
            /\ ws' = [ws EXCEPT ![j] = "awaiting"]
    /\ UNCHANGED <<host, script, mode, disk, invoked, emitted, ready, ui, call>>

\* yd4.py websocket_endpoint, from receive_text to run_in_executor
websocket_endpoint_receive(j, req) ==
    /\ mode = "web" /\ script = "yd4"
    /\ ws[j] = "open"
    /\ \A k \in Slots : k < j => ws[k] # "open"
    /\ IF ~req.json THEN
            /\ delivered' = [delivered EXCEPT
                    ![j] = SendJson(@, ws[j], Frame("error", 0, <<"Invalid request format">>))]
            /\ ws' = [ws EXCEPT ![j] = "closing"]
            /\ UNCHANGED job
       ELSE IF RequestUrl(req) = <<>> THEN
            /\ delivered' = [delivered EXCEPT
                    ![j] = SendJson(@, ws[j], Frame("error", 0, <<"No URL provided">>))]
            /\ ws' = [ws EXCEPT ![j] = "closing"]
            /\ UNCHANGED job
       ELSE
            /\ job' = [job EXCEPT
                    ![j] = Submitted(RequestUrl(req), req.format, get_default_download_path)]
            /\ ws' = [ws EXCEPT ![j] = "awaiting"]
            /\ UNCHANGED delivered
    /\ UNCHANGED <<host, script, mode, disk, invoked, emitted, ready, ui, call>>

\* Yd.py websocket_endpoint, from receive_text to run_in_executor: no check
\* of the URL; a missing key raises KeyError into except Exception
websocket_endpoint_Yd_receive(j, req) ==
    /\ mode = "web" /\ script = "Yd"
    /\ ws[j] = "open"
    /\ \A k \in Slots : k < j => ws[k] # "open"
    /\ IF ~req.json THEN
            /\ delivered' = [delivered EXCEPT
                    ![j] = SendJson(@, ws[j], Frame("error", 0, <<"JSONDecodeError">>))]
            /\ ws' = [ws EXCEPT ![j] = "closing"]
            /\ UNCHANGED job
       ELSE IF req.url = NoKey THEN
            /\ delivered' = [delivered EXCEPT
                    ![j] = SendJson(@, ws[j], Frame("error", 0, <<"'url'">>))]
            /\ ws' = [ws EXCEPT ![j] = "closing"]
            /\ UNCHANGED job
       ELSE
            /\ job' = [job EXCEPT ![j] = Submitted(req.url, req.format, YdDownloadPath)]
            /\ ws' = [ws EXCEPT ![j] = "awaiting"]
            /\ UNCHANGED delivered
    /\ UNCHANGED <<host, script, mode, disk, invoked, emitted, ready, ui, call>>

\* A loop that runs the newest scheduled send first
loop_run_send_Newest ==
    /\ ready # <<>> /\ Head(ready).k = "send"
    /\ LET sends == {n \in DOMAIN ready : ready[n].k = "send"}
           last == CHOOSE n \in sends : \A m \in sends : m <= n
           j == ready[last].slot
       IN  /\ delivered' = [delivered EXCEPT ![j] = SendJson(@, ws[j], ready[last].frame)]
           /\ ready' = SubSeq(ready, 1, last - 1) \o SubSeq(ready, last + 1, Len(ready))
    /\ UNCHANGED <<host, script, mode, disk, invoked, emitted, job, ws, ui, call>>

\* The task's step: websocket.send_json(frame)
loop_run_send ==
    /\ ready # <<>> /\ Head(ready).k = "send"
    /\ LET j == Head(ready).slot
       IN  delivered' = [delivered EXCEPT ![j] = SendJson(@, ws[j], Head(ready).frame)]
    /\ ready' = Tail(ready)
    /\ UNCHANGED <<host, script, mode, disk, invoked, emitted, job, ws, ui, call>>

\* websocket_endpoint resumed after run_in_executor: the terminal message
loop_run_wakeup ==
    /\ ready # <<>> /\ Head(ready).k = "wake"
    /\ LET j == Head(ready).slot
           f == IF job[j].pc = "raised" THEN Frame("error", 0, job[j].result.text)
                ELSE IF script = "yd4" THEN ResultFrame(job[j].result)
                ELSE ResultFrameYd(job[j].result)
       IN  /\ delivered' = [delivered EXCEPT ![j] = SendJson(@, ws[j], f)]
           /\ ws' = [ws EXCEPT ![j] = "closing"]
           /\ job' = [job EXCEPT ![j] = IdleJob]
    /\ ready' = Tail(ready)
    /\ UNCHANGED <<host, script, mode, disk, invoked, emitted, ui, call>>

\* websocket_endpoint, finally: websocket.close()
websocket_close(j) ==
    /\ mode = "web"
    /\ ws[j] = "closing"
    /\ ws' = [ws EXCEPT ![j] = "closed"]
    /\ delivered' = [delivered EXCEPT ![j] = Append(@, CloseFrame)]
    /\ UNCHANGED <<host, script, mode, disk, invoked, emitted, job, ready, ui, call>>

\* ------------------------------------------------------------ the engine
\* download returns r, its locals are gone. how: what the extractor call
\* did ("none": not invoked, "raised", "returned", or "aborted": an
\* exception a progress hook let out went through it)
Returned(rec, how, r) ==
    [rec EXCEPT !.dfile = None, !.lastfin = None, !.adapter = how, !.result = r]

\* download has returned r in slot j (rec: the slot's job as it stands): the
\* thread's next lines, up to where it hands over to the front end.
\*   web:          the executor future completes, its done callback is
\*                 registered on the loop (call_soon_threadsafe)
\*   yd4.py tui:   download_task calls call_from_thread(finish_ui) and waits
\*   Yd.py tui:    download_task runs on the UI thread, call_from_thread
\*                 raises out of on_button_pressed and the app ends
Finish(j, rec, how, r) ==
    IF mode = "web" THEN
        /\ job' = [job EXCEPT ![j] = [Returned(rec, how, r) EXCEPT !.pc = "done"]]
        /\ ready' = Enqueue(ready, Item("wake", j, NoFrame))
        /\ UNCHANGED <<ui, call>>
    ELSE IF script = "yd4" THEN
        /\ job' = [job EXCEPT ![j] = [Returned(rec, how, r) EXCEPT !.pc = "blocked"]]
        /\ call' = [call EXCEPT ![j] = Call("finish_ui", 0, r.ok, r.text)]
        /\ UNCHANGED <<ready, ui>>
    ELSE
        /\ job' = [job EXCEPT ![j] = [Returned(rec, how, r) EXCEPT !.pc = "done"]]
        /\ ui' = [ui EXCEPT !.alive = FALSE]
        /\ UNCHANGED <<ready, call>>

\* A download whose try has no except for what the extractor call raises
Crosses_NoTry(scr, how) == how \in {"raised", "aborted"}

\* Whether an exception of the extractor call (how: "raised" by the
\* extractor, "aborted" by a hook's exception going through it) leaves
\* download: `except Exception` of either script catches them all
Crosses(scr, how) == FALSE

\* download raises msg in slot j. web: run_in_executor raises in
\* websocket_endpoint, into its except Exception; yd4.py tui: the worker
\* thread ends there; Yd.py tui: on_button_pressed raises
Escape(j, rec, how, msg) ==
    LET dead == [Returned(rec, how, Result(FALSE, msg)) EXCEPT !.pc = "raised"]
    IN  /\ job' = [job EXCEPT ![j] = dead]
        /\ ready' = IF mode = "web" THEN Enqueue(ready, Item("wake", j, NoFrame)) ELSE ready
        /\ ui' = IF mode = "tui" /\ script = "Yd" THEN [ui EXCEPT !.alive = FALSE] ELSE ui
        /\ UNCHANGED call

\* The extractor call ended by an exception with text msg
Except(j, rec, how, msg) ==
    IF Crosses(script, how) THEN Escape(j, rec, how, msg)
    ELSE Finish(j, rec, how, EngineExcept(script, msg))

\* A hook that updates the progress bar itself, on the thread it runs on
Post_Direct(j, rec, out) ==
    IF mode = "web" THEN
        /\ job' = [job EXCEPT ![j] = rec]
        /\ ready' = IF out = NoFrame THEN ready ELSE Enqueue(ready, Item("send", j, out))
        /\ UNCHANGED <<ui, call>>
    ELSE IF out.type = "update_progress" THEN
        /\ job' = [job EXCEPT ![j] = rec]
        /\ ui' = [ui EXCEPT !.bar = out.percent]
        /\ UNCHANGED <<ready, call>>
    ELSE IF out = NoCall THEN
        /\ job' = [job EXCEPT ![j] = rec]
        /\ UNCHANGED <<ready, ui, call>>
    ELSE
        /\ job' = [job EXCEPT ![j] = [rec EXCEPT !.pc = "blocked"]]
        /\ call' = [call EXCEPT ![j] = out]
        /\ UNCHANGED <<ready, ui>>

\* A hook handed `out` to the front end: scheduled on the loop
\* (run_coroutine_threadsafe), or run on the UI thread while the worker waits
\* (call_from_thread)
Post(j, rec, out) ==
    IF mode = "web" THEN
        /\ job' = [job EXCEPT ![j] = rec]
        /\ ready' = IF out = NoFrame THEN ready ELSE Enqueue(ready, Item("send", j, out))
        /\ UNCHANGED <<ui, call>>
    ELSE IF out = NoCall THEN
        /\ job' = [job EXCEPT ![j] = rec]
        /\ UNCHANGED <<ready, ui, call>>
    ELSE
        /\ job' = [job EXCEPT ![j] = [rec EXCEPT !.pc = "blocked"]]
        /\ call' = [call EXCEPT ![j] = out]
        /\ UNCHANGED <<ready, ui>>

\* yd4.py download, lines 78-83: the output directory
OutputDir(path) ==
    AbsPath(IF Strip(path) = <<>> THEN get_default_download_path ELSE path)

\* download begins on its thread: the directory is made (or not), the
\* extractor is invoked with the URL
download_begin(j) ==
    /\ job[j].pc = "queued"
    /\ \E made \in BOOLEAN :
        IF script = "yd4" THEN
            IF made THEN
                /\ job' = [job EXCEPT ![j].pc = "extracting", ![j].dir = OutputDir(@)]
                /\ invoked' = invoked \cup {job[j].url}
                /\ UNCHANGED <<ready, ui, call>>
            ELSE
                /\ Finish(j, job[j], "none", Result(FALSE, <<"Failed to create directory:">>))
                /\ UNCHANGED invoked
        ELSE IF mode = "tui" /\ ~made THEN
            \* Yd.py DownloaderEngine.__init__ raises in on_button_pressed
            /\ job' = [job EXCEPT ![j].pc = "done"]
            /\ ui' = [ui EXCEPT !.alive = FALSE]
            /\ UNCHANGED <<invoked, ready, call>>
        ELSE
            /\ job' = [job EXCEPT ![j].pc = "extracting"]
            /\ invoked' = invoked \cup {job[j].url}
            /\ UNCHANGED <<ready, ui, call>>
    /\ UNCHANGED <<host, script, mode, disk, emitted, ws, delivered>>

\* A downloading event whose percent is absent, no number or no string
Malformed(d) ==
    d.status = "downloading" /\ d.percent_str \in {Missing, <<"N/A">>, NotAString}

\* The extractor reports progress: it calls the registered hook with d
adapter_emit(j, d) ==
    /\ job[j].pc = "extracting"
    /\ emitted < MaxEvents
    /\ Strip(job[j].url) # <<>>
    /\ d \in EventsOf(job[j].dir, MediaOf(job[j].url))
    /\ LET h == EngineHookOf(job[j].hook, d)
           rec == [job[j] EXCEPT
                    !.dfile = IF script = "yd4" THEN CaptureFile(@, d) ELSE @,
                    !.lastfin = IF script = "yd4" /\ d.status = "finished"
                                THEN d.filename ELSE @,
                    !.malformed = @ + IF Malformed(d) THEN 1 ELSE 0,
                    !.finished = @ + IF d.status = "finished" THEN 1 ELSE 0,
                    !.posted = IF h.exc = "" /\ h.out # NoFrame THEN Append(@, h.out) ELSE @]
       IN  IF h.exc # "" THEN
                Except(j, rec, "aborted", HookExcText(h.exc))
           ELSE Post(j, rec, h.out)
    /\ emitted' = emitted + 1
    /\ UNCHANGED <<host, script, mode, disk, invoked, ws, delivered>>

\* The extractor raises (a blank URL always ends so)
adapter_raise(j, e) ==
    /\ job[j].pc = "extracting"
    /\ e \in ExcTexts
    /\ Except(j, job[j], "raised", e)
    /\ UNCHANGED <<host, script, mode, disk, invoked, emitted, ws, delivered>>

\* An engine that keeps the captured filename in a field of its own, which
\* every call on it reads
downloaded_file_OfEngine(j) ==
    IF job[j].dfile # None THEN job[j].dfile
    ELSE IF \E k \in Slots : job[k].dfile # None
         THEN job[CHOOSE k \in Slots : job[k].dfile # None].dfile
         ELSE None

\* yd4.py download: downloaded_file as the call in slot j sees it, a local
\* of that call (internal_hook writes it through nonlocal)
downloaded_file(j) == job[j].dfile

\* What download returns once the extractor has returned info
DownloadResults(scr, fmt, dir, info, dfile, dsk) ==
    IF scr = "yd4" THEN ResolveFile(fmt, dir, info, dfile, dsk) ELSE ResolveFileYd

\* The extractor returns info, having left the files `written` in the output
\* directory; download resolves the final file. (Yd.py never looks at the
\* directory: what is left there is not tracked for it.)
adapter_return(j, info, written) ==
    /\ job[j].pc = "extracting"
    /\ Strip(job[j].url) # <<>>
    /\ \/ info = NoInfo /\ written = {}
       \/ info = MediaOf(job[j].url) /\ written \in SUBSET LeftNames(info)
                /\ Cardinality(written) <= MaxWritten
    /\ disk' = IF script = "yd4" THEN disk \cup {Join(job[j].dir, n) : n \in written} ELSE disk
    /\ \E r \in DownloadResults(script, job[j].fmt, job[j].dir, info, downloaded_file(j), disk') :
            Finish(j, job[j], "returned", r)
    /\ UNCHANGED <<host, script, mode, invoked, emitted, ws, delivered>>

\* ---------------------------------------------------------- terminal UI
\* run_worker(..., thread=True): a new thread; the slot it gets
FreeSlots == {j \in Slots : job[j].pc = "idle"}
NewThread == CHOOSE j \in FreeSlots : \A k \in FreeSlots : j <= k

\* yd4.py on_button_pressed, the guard of the start branch
AlreadyRunning(u) == u.is_downloading

\* yd4.py on_button_pressed, start branch (a Pressed message is handled
\* whether or not the button has been disabled since it was posted)
on_button_pressed(url, path, fmt) ==
    /\ mode = "tui" /\ script = "yd4"
    /\ ui.alive
    /\ IF AlreadyRunning(ui) THEN
            /\ ui' = [ui EXCEPT !.press = "rejected_running"]
            /\ UNCHANGED <<job, delivered>>
       ELSE IF Strip(url) = <<>> THEN
            /\ ui' = [ui EXCEPT !.press = "rejected_empty"]
            /\ UNCHANGED <<job, delivered>>
       ELSE
            /\ ui.accepted < MaxJobs
            /\ FreeSlots # {}
            /\ ui' = [ui EXCEPT !.start_disabled = TRUE, !.open_disabled = TRUE,
                                !.is_downloading = TRUE, !.accepted = @ + 1,
                                !.press = "accepted"]
            /\ job' = [job EXCEPT ![NewThread] = Submitted(Strip(url), fmt, Strip(path))]
            /\ delivered' = [delivered EXCEPT ![NewThread] = <<>>]
    /\ UNCHANGED <<host, script, mode, disk, invoked, emitted, ws, ready, call>>

\* Yd.py on_button_pressed: `if not url`, no strip and no running guard;
\* download_task(url, fmt) is called on the spot, on the UI thread
on_button_pressed_Yd(url, fmt) ==
    /\ mode = "tui" /\ script = "Yd"
    /\ ui.alive
    /\ \A j \in Slots : job[j].pc = "idle"
    /\ IF url = <<>> THEN
            /\ ui' = [ui EXCEPT !.press = "rejected_empty"]
            /\ UNCHANGED <<job, delivered>>
       ELSE
            /\ ui' = [ui EXCEPT !.start_disabled = TRUE, !.accepted = @ + 1,
                                !.press = "accepted"]
            /\ job' = [job EXCEPT ![NewThread] = Submitted(url, fmt, YdDownloadPath)]
            /\ delivered' = [delivered EXCEPT ![NewThread] = <<>>]
    /\ UNCHANGED <<host, script, mode, disk, invoked, emitted, ws, ready, call>>

\* finish_ui without its else branch: a failure leaves the path of the last
\* success
finish_ui_KeepFile(u, success, result) ==
    [u EXCEPT !.last_downloaded_file = IF success THEN result ELSE @,
              !.open_disabled = IF success THEN FALSE ELSE @,
              !.start_disabled = FALSE,
              !.bar = 0,
              !.is_downloading = FALSE]

\* finish_ui without its last line: is_downloading stays true
finish_ui_KeepDownloading(u, success, result) ==
    [u EXCEPT !.last_downloaded_file = IF success THEN result ELSE None,
              !.open_disabled = IF success THEN FALSE ELSE @,
              !.start_disabled = FALSE,
              !.bar = 0]

\* yd4.py finish_ui(success, result)
finish_ui(u, success, result) ==
    [u EXCEPT !.last_downloaded_file = IF success THEN result ELSE None,
              !.open_disabled = IF success THEN FALSE ELSE @,
              !.start_disabled = FALSE,
              !.bar = 0,
              !.is_downloading = FALSE]

\* yd4.py action_open_last_file, by the key o or the open button: the file is
\* handed to the OS to open, or there is none to open
action_open_last_file ==
    /\ mode = "tui" /\ script = "yd4"
    /\ ui.alive
    /\ ui' = [ui EXCEPT !.press =
                IF ui.last_downloaded_file # None /\ ui.last_downloaded_file \in disk
                THEN "opened" ELSE "no_file"]
    /\ UNCHANGED <<host, script, mode, disk, invoked, emitted, job, ws, delivered, ready, call>>

\* yd4.py update_progress(percent)
update_progress(u, percent) == [u EXCEPT !.bar = percent]

\* The UI thread runs the call a worker waits on; the worker goes on (after
\* finish_ui, download_task ends and with it the thread)
ui_run_call(j) ==
    /\ mode = "tui" /\ script = "yd4"
    /\ ui.alive
    /\ call[j] # NoCall
    /\ delivered' = [delivered EXCEPT ![j] = Append(@, call[j])]
    /\ call' = [call EXCEPT ![j] = NoCall]
    /\ IF call[j].type = "finish_ui" THEN
            /\ ui' = finish_ui(ui, call[j].ok, call[j].text)
            /\ job' = [job EXCEPT ![j] = IdleJob]
       ELSE IF call[j].type = "update_progress" THEN
            /\ ui' = update_progress(ui, call[j].percent)
            /\ job' = [job EXCEPT ![j].pc = "extracting"]
       ELSE
            /\ job' = [job EXCEPT ![j].pc = "extracting"]
            /\ UNCHANGED ui
    /\ UNCHANGED <<host, script, mode, disk, invoked, emitted, ws, ready>>

\* ------------------------------------------------------- specification
Next ==
    \/ \E j \in Slots, req \in Requests : websocket_endpoint_receive(j, req)
    \/ \E j \in Slots, req \in Requests : websocket_endpoint_Yd_receive(j, req)
    \/ loop_run_send
    \/ loop_run_wakeup
    \/ \E j \in Slots : websocket_close(j)
    \/ \E j \in Slots : download_begin(j)
    \/ \E j \in Slots : \E d \in EventsOf(job[j].dir, MediaOf(job[j].url)) : adapter_emit(j, d)
    \/ \E j \in Slots, e \in ExcTexts : adapter_raise(j, e)
    \/ \E j \in Slots : \E info \in {MediaOf(job[j].url), NoInfo} :
            \E written \in SUBSET LeftNames(MediaOf(job[j].url)) : adapter_return(j, info, written)
    \/ \E url \in URLS, fmt \in FMTS : on_button_pressed(url, ui.path, fmt)
    \/ \E url \in URLS, fmt \in FMTS : on_button_pressed_Yd(url, fmt)
    \/ \E j \in Slots : ui_run_call(j)
    \/ action_open_last_file

Spec == Init /\ [][Next]_vars

\* ------------------------------------------------ the hooks on their own
\* The registered progress hook applied to downloading events of any
\* percent string, what it hands to the front end kept in slot 1's log.
progress_hooks_call(p) ==
    /\ Len(delivered[1]) < MaxReports
    /\ LET h == EngineHook(Downloading(p))
       IN  /\ h.exc = "" /\ h.out # NoFrame
           /\ delivered' = [delivered EXCEPT ![1] = Append(@, h.out)]
    /\ UNCHANGED <<host, script, mode, disk, invoked, emitted, job, ws, ready, ui, call>>

NextHooks == \E p \in PercentStrs \cup OutOfRange : progress_hooks_call(p)

SpecHooks == Init /\ [][NextHooks]_vars

\* ------------------------------------------- the output directory on its own
\* The output_path arguments download is called with: none, blank, a
\* directory
PathArgs == {<<>>, <<" ">>, CustomDir}

\* download(url, fmt, p, cb) is called on an executor thread by a caller of
\* slot j, which awaits its result
download_call(j, url, fmt, p, cb) ==
    /\ job[j].pc = "idle" /\ ws[j] = "open"
    /\ job' = [job EXCEPT ![j] = [Submitted(url, fmt, p) EXCEPT !.hook = cb]]
    /\ ws' = [ws EXCEPT ![j] = "awaiting"]
    /\ UNCHANGED <<host, script, mode, disk, invoked, emitted, delivered, ready, ui, call>>

\* yd4.py's engine behind the web server, on any host
InitPaths ==
    /\ host \in Hosts
    /\ script = "yd4"
    /\ mode = "web"
    /\ disk = {}
    /\ invoked = {}
    /\ emitted = 0
    /\ job = [j \in Slots |-> IdleJob]
    /\ ws = [j \in Slots |-> "open"]
    /\ delivered = [j \in Slots |-> <<>>]
    /\ ready = <<>>
    /\ ui = InitUi
    /\ call = [j \in Slots |-> NoCall]

NextPaths ==
    \/ \E j \in Slots, p \in PathArgs : download_call(j, Url1, "video", p, "front")
    \/ \E j \in Slots : download_begin(j)

SpecPaths == InitPaths /\ [][NextPaths]_vars

\* ------------------------------------------------- the engine on its own
\* yd4.py's one engine behind the web server, its download called by two
\* callers, one after the other or at once, for either URL, with no callback
\* or with one that raises (the front ends' own hooks are the callbacks of
\* Spec)
InitEngine == Init /\ script = "yd4" /\ mode = "web"

NextEngine ==
    \/ \E j \in Slots, url \in {Url1, Url2}, cb \in Callbacks \ {"front"} :
            download_call(j, url, "video", <<>>, cb)
    \/ \E j \in Slots : download_begin(j)
    \/ \E j \in Slots : \E d \in EventsOf(job[j].dir, MediaOf(job[j].url)) : adapter_emit(j, d)
    \/ \E j \in Slots : \E info \in {MediaOf(job[j].url), NoInfo} :
            \E written \in SUBSET LeftNames(MediaOf(job[j].url)) : adapter_return(j, info, written)
    \/ loop_run_wakeup

SpecEngine == InitEngine /\ [][NextEngine]_vars

\* ================================================================ claims
\* Positions of the terminal messages (done, error) in a channel's frames
Terminals(log) == {i \in DOMAIN log : Terminal(log[i])}

\* C1: at most one download job runs at any time, also when two web
\* connections share the server's one engine. (Stated as the claim states
\* it; the web endpoint has no running guard.)
C1_AtMostOneJob == Cardinality(RunningJobs) <= 1

\* C2: on every web job channel the server sends exactly one terminal
\* message (done or error): never two, never none once the request has been
\* answered, and the channel is closed after it and carries nothing more.
C2_ExactlyOneTerminal ==
    mode = "web" =>
        \A j \in Slots :
            LET log == delivered[j]
            IN  /\ Cardinality(Terminals(log)) <= 1
                /\ ws[j] \in {"open", "awaiting"} => Terminals(log) = {}
                /\ ws[j] = "closing" =>
                        /\ Cardinality(Terminals(log)) = 1
                        /\ \A i \in DOMAIN log : log[i] # CloseFrame
                /\ ws[j] = "closed" =>
                        /\ Cardinality(Terminals(log)) = 1
                        /\ log[Len(log)] = CloseFrame
                        /\ \A i \in DOMAIN log : log[i] = CloseFrame => i = Len(log)
                        /\ \A i \in Terminals(log) : i < Len(log)

\* C2 witness: both channels closed, one answered done after a progress
\* frame, the other answered error
C2_Witness ==
    /\ mode = "web"
    /\ ws[1] = "closed" /\ ws[2] = "closed"
    /\ \E i \in DOMAIN delivered[1] : delivered[1][i].type = "progress"
    /\ \E i \in DOMAIN delivered[1] : delivered[1][i].type = "done"
    /\ \E i \in DOMAIN delivered[2] : delivered[2][i].type = "error"

\* C3: the terminal message of a web job matches the engine's result: error
\* carrying the failure message when download returned failure, done
\* carrying the resolved path only when it returned success. (Stated as the
\* claim states it, on the step that sends the terminal message.)
C3_TerminalMatchesResult ==
    [][\A j \in Slots :
        (mode = "web" /\ ws[j] = "awaiting" /\ ws'[j] = "closing") =>
            LET f == delivered'[j][Len(delivered'[j])]
                r == job[j].result
            IN  /\ f.type = IF r.ok THEN "done" ELSE "error"
                /\ f.text = r.text]_vars

\* C4: the extractor is never invoked with an empty or whitespace-only URL,
\* whichever entry point started the job. (Stated as the claim states it.)
C4_BlankNeverInvoked == \A u \in invoked : Strip(u) # <<>>

\* The messages and calls that end a job at the front end, and those that
\* report its progress
EndTypes == {"done", "error", "close", "finish_ui"}
ProgressTypes == {"progress", "log", "update_progress", "write_line"}

\* C5: for one job, nothing reporting progress is delivered to the front
\* end after the job's terminal result (web: done/error, and the close of the
\* channel; terminal UI: finish_ui), and once the terminal result is
\* delivered no progress of that job is still on its way.
C5_TerminalAfterProgress ==
    \A j \in Slots :
        LET log == delivered[j]
        IN  /\ \A i, k \in DOMAIN log :
                    (i < k /\ log[i].type \in EndTypes) => log[k].type \notin ProgressTypes
            /\ (\E i \in DOMAIN log : log[i].type \in EndTypes) =>
                    /\ \A n \in DOMAIN ready :
                            ~(ready[n].k = "send" /\ ready[n].slot = j)
                    /\ call[j] = NoCall

\* C5 witness: a channel that carried a progress frame, the processing
\* frame, then done, then its close
C5_Witness ==
    /\ mode = "web" /\ script = "yd4"
    /\ Len(delivered[1]) = 4
    /\ delivered[1][1].type = "progress" /\ delivered[1][1].text = <<"Downloading...">>
    /\ delivered[1][2].text = <<"Processing...">>
    /\ delivered[1][3].type = "done"
    /\ delivered[1][4] = CloseFrame

\* C6 as stated: whenever the extraction call has returned without raising,
\* download's result is a success whose path exists on disk.
C6_SuccessOnDisk ==
    \A j \in Slots :
        job[j].adapter = "returned" => job[j].result.ok /\ job[j].result.text \in disk

\* C6 as amended: when the extraction call returns without raising,
\* download returns exactly one result. yd4.py: a success carries a path that
\* exists on disk at return time; a failure is "Failed to extract video
\* information" or, when the expected final path is not on disk, "Download
\* completed but file not found in <dir>". Yd.py: success with the text
\* "Finished", no path.
C6_ResultAtReturn ==
    [][\A j \in Slots :
        (job[j].adapter = "none" /\ job'[j].adapter = "returned") =>
            LET r == job'[j].result
                notfound == <<"Download completed but file not found in">> \o job'[j].dir
                final == FinalFile(job'[j].fmt, job'[j].dir, MediaOf(job'[j].url))
            IN  /\ r # NoResult
                /\ script = "yd4" /\ r.ok => r.text \in disk'
                /\ script = "yd4" /\ ~r.ok =>
                        \/ r.text = <<"Failed to extract video information">>
                        \/ r.text = notfound /\ final \notin disk'
                /\ script = "Yd" => r = Result(TRUE, <<"Finished">>)]_vars

\* C6 witness: an audio download of yd4.py returned success with the
\* expected .mp3 path, which is on disk
C6_Witness ==
    /\ script = "yd4"
    /\ job[1].adapter = "returned" /\ job[1].fmt = "audio"
    /\ job[1].result.ok
    /\ job[1].result.text = FinalFile("audio", job[1].dir, MediaOf(job[1].url))
    /\ job[1].result.text \in disk

\* C7: every audio-format job of yd4.py that ends in success returns a path
\* ending in .mp3, whichever step of the resolution chain produced it.
\* (Stated as the claim states it.)
C7_AudioEndsMp3 ==
    \A j \in Slots :
        (script = "yd4" /\ job[j].fmt = "audio" /\ job[j].adapter = "returned"
            /\ job[j].result.ok) => EndsWith(job[j].result.text, <<".", "mp3">>)

\* C8: a malformed downloading event (percent absent, no number or no
\* string) never makes the job fail: the step that handles it leaves the job
\* running with no result and with everything its result depends on as it
\* was, sends no terminal message and touches no control; at most a progress
\* report goes to the front end (an absent percent reads as 0%). So the
\* job ends as it would without the event, and the later finished event and
\* the terminal result are delivered all the same.
C8_MalformedNeverFails ==
    [][\A j \in Slots :
        job'[j].malformed > job[j].malformed =>
            /\ [job'[j] EXCEPT !.pc = "extracting", !.posted = <<>>]
                    = [job[j] EXCEPT !.malformed = @ + 1, !.posted = <<>>]
            /\ job'[j].pc \in {"extracting", "blocked"}
            /\ UNCHANGED <<disk, invoked, ws, delivered, ui>>
            /\ \/ ready' = ready
               \/ /\ ready' = Append(ready, ready'[Len(ready')])
                  /\ ready'[Len(ready')].k = "send"
                  /\ ready'[Len(ready')].frame.type = "progress"
            /\ call'[j].type \in {"none", "update_progress"}]_vars

\* C8 witness: a yd4.py web job that got a malformed event has returned
\* success, and the frame of its later finished event has been delivered
C8_Witness ==
    /\ script = "yd4" /\ mode = "web"
    /\ job[1].malformed > 0
    /\ job[1].adapter = "returned" /\ job[1].result.ok
    /\ \E i \in DOMAIN delivered[1] : delivered[1][i].text = <<"Processing...">>

\* C9: in the terminal UI, whenever the extraction call has returned or
\* raised, the app lives and finish_ui is on its way to the UI thread with
\* download's result (it sets is_downloading false, enables start and
\* records the file), so that the front end is never left in the running
\* state. (Stated as the claim states it.)
C9_BackToIdle ==
    mode = "tui" =>
        \A j \in Slots :
            job[j].adapter # "none" =>
                /\ ui.alive
                /\ call[j] = Call("finish_ui", 0, job[j].result.ok, job[j].result.text)

\* C10: a start request handled while a job is running has no side effect:
\* the step leaves every job, the UI's fields and controls, and what is on
\* its way to the front end as they were. (Stated as the claim states it;
\* a web request is handled when its channel leaves the state open, a
\* press of start when on_button_pressed records its outcome.)
C10_RejectedNoEffect ==
    [][(/\ RunningJobs # {}
        /\ \/ \E j \in Slots : ws[j] = "open" /\ ws'[j] # "open"
           \/ ui'.press # ui.press)
        => /\ job' = job
           /\ ui' = [ui EXCEPT !.press = ui'.press]
           /\ UNCHANGED <<disk, invoked, ready, call>>]_vars

\* C11: download never lets an exception of the extractor call cross its
\* boundary: whenever the extractor raised, or a progress hook's exception
\* went through it, download has returned a (False, text) pair to its
\* caller and no thread has ended in the exception.
C11_NothingCrosses ==
    \A j \in Slots :
        /\ job[j].pc # "raised"
        /\ job[j].adapter \in {"raised", "aborted"} =>
                /\ job[j].pc \in {"done", "blocked"}
                /\ job[j].result # NoResult
                /\ ~job[j].result.ok

\* C11 witness: in Yd.py's terminal UI the hook raised inside the extractor
\* (call_from_thread on the app's thread) and download returned the failure
C11_Witness ==
    /\ script = "Yd" /\ mode = "tui"
    /\ job[1].adapter = "aborted"
    /\ job[1].result = Result(FALSE, CallFromThreadError)

\* C12: final-path resolution is deterministic: whatever the extractor
\* returns and leaves on disk for a running job of yd4.py, the files on disk,
\* the info and the finished-event filename determine one result, also when
\* more than one directory entry contains the title. (Stated as the claim
\* states it.)
C12_ResolutionDeterministic ==
    \A j \in Slots :
        (script = "yd4" /\ job[j].pc = "extracting") =>
            \A info \in {MediaOf(job[j].url), NoInfo} :
                \A written \in SUBSET LeftNames(MediaOf(job[j].url)) :
                    Cardinality(written) <= MaxWritten =>
                        Cardinality(ResolveFile(job[j].fmt, job[j].dir, info, job[j].dfile,
                            disk \cup {Join(job[j].dir, n) : n \in written})) = 1

\* C13: every failure download returns because the extractor call raised
\* carries a non-empty message, also when the exception's text is empty.
\* (Stated as the claim states it.)
C13_FailureMessageNonEmpty ==
    \A j \in Slots :
        job[j].adapter \in {"raised", "aborted"} => job[j].result.text # <<>>

\* C14: every message the server sends on a web job channel has one of the
\* three types progress, done, error, also the one a finished event
\* triggers. (Stated as the claim states it.)
C14_ThreeMessageTypes ==
    mode = "web" =>
        \A j \in Slots : \A i \in DOMAIN delivered[j] :
            delivered[j][i] # CloseFrame =>
                delivered[j][i].type \in {"progress", "done", "error"}

\* What reports progress among the frames or calls of a log
IsProgress(f) == f.type \in ProgressTypes
ProgressOf(log) == SelectSeq(log, IsProgress)

\* C15: for one job, what the hooks handed to the front end is delivered in
\* the order the extractor emitted the events: at any time the progress
\* delivered for a job is a prefix of what its hooks have posted, in order.
C15_ProgressInOrder ==
    \A j \in Slots :
        job[j].pc # "idle" =>
            LET got == ProgressOf(delivered[j])
            IN  /\ Len(got) <= Len(job[j].posted)
                /\ got = SubSeq(job[j].posted, 1, Len(got))

\* C15 witness: a yd4.py web job whose two different downloading events
\* (10%, then one without percent) have both been delivered
C15_Witness ==
    /\ script = "yd4" /\ mode = "web"
    /\ job[1].pc # "idle"
    /\ Len(job[1].posted) = 2
    /\ job[1].posted[1].percent = 10 /\ job[1].posted[2].percent = 0
    /\ job[1].posted[2].text = <<"Downloading...">>
    /\ ProgressOf(delivered[1]) = job[1].posted

\* C16: after the extractor returned an info object, yd4.py's download
\* returns the first applicable step of the chain: (1) the expected final
\* path (the prepared filename; for audio, its extension replaced by .mp3)
\* if it exists; (2) else the file a finished event reported, if it exists;
\* (3) else a directory entry whose name contains the title; (4) else a
\* failure naming the output directory.
C16_ResolutionChain ==
    [][\A j \in Slots :
        (/\ script = "yd4"
         /\ job[j].adapter = "none" /\ job'[j].adapter = "returned"
         /\ job'[j].result.text # <<"Failed to extract video information">>) =>
            LET r == job'[j].result
                dir == job[j].dir
                info == MediaOf(job[j].url)
                prepared == prepare_filename(dir, info)
                expected == IF job[j].fmt = "audio"
                            THEN SplitExtRoot(prepared) \o <<".", "mp3">> ELSE prepared
                reported == job[j].dfile
                entries == {Join(dir, n) : n \in {m \in ListDir(dir, disk') : Contains(info.title, m)}}
            IN  IF expected \in disk' THEN r = Result(TRUE, expected)
                ELSE IF reported # None /\ reported \in disk' THEN r = Result(TRUE, reported)
                ELSE IF entries # {} THEN r.ok /\ r.text \in entries
                ELSE ~r.ok /\ Contains(dir, r.text)]_vars

\* C16 witness: an audio job of yd4.py that got a finished event returned
\* success with a file that is not the expected .mp3 (a fallback step)
C16_Witness ==
    /\ script = "yd4"
    /\ job[1].adapter = "returned" /\ job[1].fmt = "audio" /\ job[1].finished > 0
    /\ job[1].result.ok
    /\ job[1].result.text # FinalFile("audio", job[1].dir, MediaOf(job[1].url))
    /\ job[1].result.text \in disk

\* C17: a downloading event whose percent string is missing or malformed is
\* skipped: handling it hands nothing to the front end, no progress message
\* and no progress-bar update. (Stated as the claim states it.)
C17_MalformedSkipped ==
    [][\A j \in Slots :
        job'[j].malformed > job[j].malformed =>
            /\ job'[j].posted = job[j].posted
            /\ ready' = ready
            /\ call' = call]_vars

\* A progress event of the postprocessing phase: percent 100
IsPostprocessing(f) == f.type \in {"progress", "update_progress"} /\ f.percent = 100

\* C18: every finished event of the extractor triggers exactly one progress
\* event with percent 100 at the front end: what a job's hooks have posted
\* holds as many of them as the job got finished events. (Stated as the
\* claim states it.)
C18_FinishedPosts100 ==
    \A j \in Slots :
        job[j].pc # "idle" =>
            Len(SelectSeq(job[j].posted, IsPostprocessing)) = job[j].finished

\* C19: every progress event delivered to a front end carries a percent in
\* [0, 100], whatever percent string the extractor reports. (Stated as the
\* claim states it.)
C19_PercentInRange ==
    \A j \in Slots : \A i \in DOMAIN delivered[j] :
        delivered[j][i].type \in {"progress", "update_progress"} =>
            delivered[j][i].percent \in 0..100

\* C20: the failure message download returns when the extractor call raised
\* never contains the thread-marshalling marker call_from_thread, in either
\* engine. (Stated as the claim states it.)
C20_MessageSanitized ==
    \A j \in Slots :
        job[j].adapter \in {"raised", "aborted"} =>
            ~Contains(<<"call_from_thread">>, job[j].result.text)

\* C21: when the output directory cannot be created, the job ends with a
\* failure result naming the directory error, returned to the caller as a
\* value: the step on which download ends before the extractor is invoked
\* adds nothing to the invoked URLs, leaves a (False, "Failed to create
\* directory: ...") result in the job, and no thread or app ends in an
\* exception. (Stated as the claim states it.)
C21_DirectoryFailureReturned ==
    [][\A j \in Slots :
        (job[j].pc = "queued" /\ job'[j].pc \notin {"queued", "extracting"}) =>
            /\ invoked' = invoked
            /\ job'[j].adapter = "none"
            /\ job'[j].pc # "raised"
            /\ job'[j].result # NoResult /\ ~job'[j].result.ok
            /\ Contains(<<"Failed to create directory:">>, job'[j].result.text)
            /\ ui'.alive]_vars

\* The thread download and the hooks run on: an executor thread (web), a
\* worker thread (yd4.py terminal UI), or the UI thread itself (Yd.py's
\* download_task is called on it)
DownloadThread == IF mode = "tui" /\ script = "Yd" THEN "ui" ELSE "worker"

\* A step of the thread running slot j's download: the job moves while
\* download is between its call and its hand-over to the front end
WorkerStep(j) == job[j].pc \in {"queued", "extracting"} /\ job'[j] # job[j]

C23_DefaultPathOfHost ==
    [][\A j \in Slots :
        (job[j].pc = "queued" /\ job'[j].pc = "extracting") =>
            LET sandboxed == host.platform = "linux" /\ host.marker
                default == IF ~sandboxed THEN <<"/", "home", "/", "ytd">>
                           ELSE IF host.storage
                                THEN <<"/", "storage", "/", "emulated", "/", "0", "/", "Download">>
                                ELSE <<"/", "home", "/", "storage", "/", "downloads">>
            IN  IF job[j].dir \in {<<>>, <<" ">>} THEN job'[j].dir = default
                ELSE job'[j].dir = AbsPath(job[j].dir)]_vars

\* C23 witness: on Termux without the shared storage, a download called with
\* a blank path went on in <home>/storage/downloads
C23_Witness ==
    /\ host = [platform |-> "linux", marker |-> TRUE, storage |-> FALSE]
    /\ job[1].pc = "extracting"
    /\ job[1].dir = TermuxDownloads
    /\ job[2].pc = "queued" /\ job[2].dir = <<" ">>

\* C24: in yd4.py's terminal UI the start control is disabled exactly when
\* is_downloading is true, in every state: a press that is accepted sets
\* both, the delivery of a job's result (finish_ui) clears both, and a press
\* rejected for an empty URL, or because a job runs, changes neither.
C24_StartDisabledIffDownloading ==
    [][(mode = "tui" /\ script = "yd4") =>
        /\ ui.start_disabled = ui.is_downloading
        /\ ui'.start_disabled = ui'.is_downloading
        /\ (ui'.accepted > ui.accepted) =>
                ~ui.is_downloading /\ ui'.is_downloading /\ ui'.start_disabled
        /\ (\E j \in Slots : call[j].type = "finish_ui" /\ call'[j] = NoCall) =>
                ui.is_downloading /\ ~ui'.is_downloading /\ ~ui'.start_disabled
        /\ (ui' # ui /\ ui'.press \in {"rejected_empty", "rejected_running"}
                /\ ui'.accepted = ui.accepted /\ call' = call) =>
                /\ ui'.is_downloading = ui.is_downloading
                /\ ui'.start_disabled = ui.start_disabled]_vars

\* C24 witness: a second job was accepted after the first one was finished,
\* and a press made while it runs has been rejected: start is disabled and
\* is_downloading is true
C24_Witness ==
    /\ mode = "tui" /\ script = "yd4"
    /\ ui.accepted = 2
    /\ ui.press = "rejected_running"
    /\ ui.is_downloading /\ ui.start_disabled

Returns(j) == job[j].adapter = "none" /\ job'[j].adapter = "returned"

\* The directory entries of a job that bear its title, after the step
TitleEntries(j) ==
    {Join(job[j].dir, n) :
        n \in {m \in ListDir(job[j].dir, disk') : Contains(MediaOf(job[j].url).title, m)}}

\* C26: in yd4.py the finished-event filename the resolution falls back on
\* is the filename of the most recent finished event of the current job. A
\* call starts with none; a finished event sets it to that event's filename,
\* whether the call has no callback or a callback that raises; any other
\* event leaves it alone; and a job that got no finished event has none when
\* the extractor returns, so that its result is the expected file, a
\* directory entry bearing the title, or the failure.
C26_LastFinishedCaptured ==
    [][\A j \in Slots :
        /\ (job[j].pc = "queued" /\ job'[j].pc = "extracting") =>
                downloaded_file(j)' = None
        /\ (job[j].pc = "extracting" /\ job'[j].pc = "extracting") =>
                /\ job'[j].finished > job[j].finished =>
                        /\ job'[j].lastfin # None
                        /\ downloaded_file(j)' = job'[j].lastfin
                /\ job'[j].finished = job[j].finished =>
                        downloaded_file(j)' = downloaded_file(j)
        /\ (Returns(j) /\ job[j].finished = 0) =>
                LET r == job'[j].result
                    expected == FinalFile(job[j].fmt, job[j].dir, MediaOf(job[j].url))
                IN  /\ downloaded_file(j) = None
                    /\ r.ok => r.text = expected \/ r.text \in TitleEntries(j)
                    /\ (r.ok /\ r.text # expected) => expected \notin disk']_vars

\* C26 witness: a call whose callback raises on every event has got two
\* finished events and holds the filename of the second; a call without a
\* callback, which got none, holds no filename
C26_Witness ==
    /\ job[1].hook = "raises"
    /\ job[1].pc = "extracting"
    /\ job[1].finished = 2
    /\ job[1].dfile = job[1].lastfin /\ job[1].dfile # None
    /\ job[2].hook = "none" /\ job[2].pc = "extracting"
    /\ job[2].finished = 0 /\ job[2].dfile = None

C28_InvalidRequestRejected ==
    [][mode = "web" =>
        \A j \in Slots :
            /\ (ws[j] = "open" /\ ws'[j] # "open") =>
                    \/ /\ job'[j].pc = "queued"
                       /\ Strip(job'[j].url) # <<>>
                       /\ delivered' = delivered
                       /\ ws'[j] = "awaiting"
                    \/ /\ job' = job
                       /\ delivered'[j] # <<>>
                       /\ delivered'[j][Len(delivered'[j])].type = "error"
                       /\ ws'[j] = "closing"
            /\ Terminals(delivered'[j]) # {} => ws'[j] \in {"closing", "closed"}
            /\ ws'[j] = "closed" =>
                    /\ delivered'[j][Len(delivered'[j])] = CloseFrame
                    /\ \A i \in Terminals(delivered'[j]) : i < Len(delivered'[j])]_vars

====
